---- MODULE Spec2Model ----
(***************************************************************************)
(* Model of index.ts: parseJson and makeFit driving a recording FitWriter. *)
(*                                                                         *)
(* A sample carries the fields the assembly logic computes with: time,     *)
(* dist and wind.  Times are milliseconds counted from the FIT epoch, so   *)
(* that they fit 32-bit integers; makeFit only ever subtracts two sample    *)
(* times or adds an offset to one before handing it to                     *)
(* FitWriter.time, so the shift changes no result.  A duration that the    *)
(* code divides by 1000 (seconds, fractional) is kept in milliseconds.     *)
(* JavaScript indices are 0-based; At(s, i) reads s[i].                    *)
(***************************************************************************)
EXTENDS Integers, Sequences, FiniteSets, TLC

MaxLen == 5
MaxRepeat == 3

VARIABLES rawJson, parsed, repeatCount, pc, totalTimeSpan, laps, lapRanges,
          repeat, records, recIdx, log, finished

vars == <<rawJson, parsed, repeatCount, pc, totalTimeSpan, laps, lapRanges,
          repeat, records, recIdx, log, finished>>

----------------------------------------------------------------------------
(* Inputs *)

\* One raw JSON element relative to its predecessor: the time and distance
\* gained, and the raw "wind" member (missing, null, the number 0, or a
\* string, which parseJson rejects).
SampleSteps ==
  { [gap |-> 500,  dgap |-> 0, wind |-> [tag |-> "missing", val |-> 0]],
    [gap |-> 1000, dgap |-> 1, wind |-> [tag |-> "null",    val |-> 0]],
    [gap |-> 1500, dgap |-> 2, wind |-> [tag |-> "number",  val |-> 0]],
    [gap |-> 500,  dgap |-> 1, wind |-> [tag |-> "string",  val |-> 0]] }

RECURSIVE RawTrack(_)
RawTrack(steps) ==
  IF steps = <<>> THEN <<>>
  ELSE LET init == RawTrack(SubSeq(steps, 1, Len(steps) - 1))
           s    == steps[Len(steps)]
           t0   == IF init = <<>> THEN 0 ELSE init[Len(init)].time
           d0   == IF init = <<>> THEN 0 ELSE init[Len(init)].dist
       IN  Append(init, [time |-> t0 + s.gap, dist |-> d0 + s.dgap,
                         wind |-> s.wind])

\* The 8-sample track of the worked example: one sample a second, one
\* distance unit a sample, a non-zero wind on every other sample.
EightTrack ==
  [i \in 1..8 |->
     [time |-> 1000 * i, dist |-> i - 1,
      wind |-> IF i % 2 = 0 THEN [tag |-> "number", val |-> i]
                            ELSE [tag |-> "missing", val |-> 0]]]

RawInputs ==
  { RawTrack(steps) :
      steps \in UNION { [1..n -> SampleSteps] : n \in 0..MaxLen } }
  \cup { EightTrack }

----------------------------------------------------------------------------
(* Helpers *)

At(s, i) == s[i + 1]

Has(s, i) == i >= 0 /\ i < Len(s)

Reverse(s) == [i \in 1..Len(s) |-> s[Len(s) + 1 - i]]

Undefined == [tag |-> "undefined", val |-> 0]

\* parseJson, the wind member: e.wind == null ? undefined : get_num(e.wind)
ParseWind(w) ==
  IF w.tag \in {"missing", "null"} THEN [ok |-> TRUE, val |-> Undefined]
  ELSE IF w.tag = "number" THEN [ok |-> TRUE, val |-> w]
  ELSE [ok |-> FALSE, val |-> Undefined]

ParseJsonOk(raw) == \A i \in 1..Len(raw) : ParseWind(raw[i].wind).ok

ParseJsonResult(raw) ==
  [i \in 1..Len(raw) |->
     [time |-> raw[i].time, dist |-> raw[i].dist,
      wind |-> ParseWind(raw[i].wind).val]]

\* FitWriter.time: a Date to the format's integer seconds (Math.round).
FitTime(ms) == (ms + 500) \div 1000

\* parsed[i].time: reading a member of undefined throws a TypeError.
SampleTime_Optional(p, i) ==
  IF Has(p, i) THEN [ok |-> TRUE, val |-> At(p, i).time]
  ELSE [ok |-> TRUE, val |-> 0]

SampleTime(p, i) ==
  IF Has(p, i) THEN [ok |-> TRUE, val |-> At(p, i).time]
  ELSE [ok |-> FALSE, val |-> 0]

\* parsed[i].dist
SampleDist(p, i) ==
  IF Has(p, i) THEN [ok |-> TRUE, val |-> At(p, i).dist]
  ELSE [ok |-> FALSE, val |-> 0]

\* +parsed[parsed.length - 1].time - +parsed[0].time
TotalTimeSpan(p) ==
  LET a == SampleTime(p, Len(p) - 1)
      b == SampleTime(p, 0)
  IN  [ok |-> a.ok /\ b.ok, val |-> a.val - b.val]

\* elapsed_time(start, end), in milliseconds
ElapsedTime(p, r, start, end) ==
  LET a == SampleTime(p, end - 1)
      b == SampleTime(p, start)
  IN  [ok |-> a.ok /\ b.ok, val |-> (a.val - b.val) * r]

\* parsed[end] ?? parsed[end - 1]: the index of the end sample
EndSample_NoClamp(p, end) == end

EndSample(p, end) == IF Has(p, end) THEN end ELSE end - 1

\* summary(start, end)
Summary(p, r, start, end) ==
  LET st == SampleTime(p, start)
      el == ElapsedTime(p, r, start, end)
      sd == SampleDist(p, start)
      ed == SampleDist(p, EndSample(p, end))
  IN  [ok  |-> st.ok /\ el.ok /\ sd.ok /\ ed.ok,
       val |-> [timestamp          |-> FitTime(st.val),
                start_time         |-> FitTime(st.val),
                total_elapsed_time |-> el.val,
                total_timer_time   |-> el.val,
                total_distance     |-> (ed.val - sd.val) * r]]

\* const laps = [0, length >> 2, length >> 1, (length * 3) >> 2]
Laps(n) == <<0, n \div 4, n \div 2, (n * 3) \div 4>>

\* const end = laps[i + 1] ?? parsed.length
LapEnd_OrOr(l, i, n) ==
  IF Has(l, i + 1) /\ At(l, i + 1) # 0 THEN At(l, i + 1) ELSE n

LapEnd(l, i, n) == IF Has(l, i + 1) THEN At(l, i + 1) ELSE n

\* i === laps.length - 1
IsLastLap_Always(l, i) == TRUE

IsLastLap(l, i) == i = Len(l) - 1

\* repeat < repeatCount
RepeatContinues_Inclusive(k, r) == k <= r

RepeatContinues(k, r) == k < r

\* const timeOffset = repeat * totalTimeSpan
TimeOffset(k, span) == k * span

\* const isForward = repeat % 2 === 0
IsForward_Odd(k) == k % 2 = 1

IsForward(k) == k % 2 = 0

\* const distance = v.dist * repeatCount * (repeat + 1)
RecordDistance_Unscaled(v, r, k) == v.dist * (k + 1)

RecordDistance(v, r, k) == v.dist * r * (k + 1)

windFieldNum == 0

\* v.wind != null ? [{ field_num: windFieldNum, value: v.wind }] : null
DevFields_Truthy(v) ==
  IF v.wind.tag = "number" /\ v.wind.val # 0
  THEN <<[field_num |-> windFieldNum, value |-> v.wind.val]>>
  ELSE <<>>

DevFields(v) ==
  IF v.wind.tag # "undefined"
  THEN <<[field_num |-> windFieldNum, value |-> v.wind.val]>>
  ELSE <<>>

\* The record message written for sample v in repeat iteration k.
RecordMessage(v, r, k, span) ==
  [type      |-> "record",
   timestamp |-> FitTime(v.time + TimeOffset(k, span)),
   distance  |-> RecordDistance(v, r, k),
   dev       |-> DevFields(v),
   last      |-> FALSE]

----------------------------------------------------------------------------
(* State machine *)

Init ==
  /\ rawJson \in RawInputs
  /\ parsed = <<>>
  /\ repeatCount = 0
  /\ pc = "parse"
  /\ totalTimeSpan = 0
  /\ laps = <<>>
  /\ lapRanges = <<>>
  /\ repeat = 0
  /\ records = <<>>
  /\ recIdx = 0
  /\ log = <<>>
  /\ finished = 0

\* processJson: const json = parseJson(rawJson)
ParseJson ==
  /\ pc = "parse"
  /\ IF ParseJsonOk(rawJson)
     THEN parsed' = ParseJsonResult(rawJson) /\ pc' = "call"
     ELSE parsed' = parsed /\ pc' = "parse_failed"
  /\ UNCHANGED <<rawJson, repeatCount, totalTimeSpan, laps, lapRanges,
                 repeat, records, recIdx, log, finished>>

\* makeFit(parsed, repeatCount): new FitWriter(), totalTimeSpan
MakeFit ==
  /\ pc = "call"
  /\ \E r \in 1..MaxRepeat :
       /\ repeatCount' = r
       /\ LET span == TotalTimeSpan(parsed)
          IN  IF span.ok
              THEN totalTimeSpan' = span.val /\ pc' = "file_id"
              ELSE totalTimeSpan' = totalTimeSpan /\ pc' = "thrown"
  /\ UNCHANGED <<rawJson, parsed, laps, lapRanges, repeat, records, recIdx,
                 log, finished>>

\* const start = fitWriter.time(parsed[0].time); writeMessage("file_id", ...)
WriteFileId ==
  /\ pc = "file_id"
  /\ LET t == SampleTime(parsed, 0)
     IN  IF t.ok
         THEN /\ log' = Append(log, [type |-> "file_id",
                                     time_created |-> FitTime(t.val),
                                     last |-> TRUE])
              /\ pc' = "developer_data_id"
         ELSE log' = log /\ pc' = "thrown"
  /\ UNCHANGED <<rawJson, parsed, repeatCount, totalTimeSpan, laps,
                 lapRanges, repeat, records, recIdx, finished>>

WriteDeveloperDataId ==
  /\ pc = "developer_data_id"
  /\ log' = Append(log, [type |-> "developer_data_id",
                         developer_data_index |-> 0, last |-> TRUE])
  /\ pc' = "field_description"
  /\ UNCHANGED <<rawJson, parsed, repeatCount, totalTimeSpan, laps,
                 lapRanges, repeat, records, recIdx, finished>>

WriteFieldDescription ==
  /\ pc = "field_description"
  /\ log' = Append(log, [type |-> "field_description",
                         developer_data_index |-> 0,
                         field_definition_number |-> windFieldNum,
                         last |-> TRUE])
  /\ pc' = "activity"
  /\ UNCHANGED <<rawJson, parsed, repeatCount, totalTimeSpan, laps,
                 lapRanges, repeat, records, recIdx, finished>>

WriteActivity ==
  /\ pc = "activity"
  /\ LET el == ElapsedTime(parsed, repeatCount, 0, Len(parsed))
         t  == SampleTime(parsed, 0)
     IN  IF el.ok /\ t.ok
         THEN /\ log' = Append(log, [type |-> "activity",
                                     total_timer_time |-> el.val,
                                     num_sessions |-> 1,
                                     timestamp |-> FitTime(t.val),
                                     last |-> TRUE])
              /\ pc' = "session"
         ELSE log' = log /\ pc' = "thrown"
  /\ UNCHANGED <<rawJson, parsed, repeatCount, totalTimeSpan, laps,
                 lapRanges, repeat, records, recIdx, finished>>

\* writeMessage("session", summary(0, parsed.length), null, true)
WriteSession ==
  /\ pc = "session"
  /\ LET s == Summary(parsed, repeatCount, 0, Len(parsed))
     IN  IF s.ok
         THEN /\ log' = Append(log, [type |-> "session", summary |-> s.val,
                                     last |-> TRUE])
              /\ pc' = "laps"
         ELSE log' = log /\ pc' = "thrown"
  /\ UNCHANGED <<rawJson, parsed, repeatCount, totalTimeSpan, laps,
                 lapRanges, repeat, records, recIdx, finished>>

ComputeLaps ==
  /\ pc = "laps"
  /\ laps' = Laps(Len(parsed))
  /\ pc' = "lap"
  /\ UNCHANGED <<rawJson, parsed, repeatCount, totalTimeSpan, lapRanges,
                 repeat, records, recIdx, log, finished>>

\* One call of the laps.forEach callback; lapRanges traces its (start, end).
WriteLap ==
  /\ pc = "lap"
  /\ LET i     == Len(lapRanges)
         start == At(laps, i)
         end   == LapEnd(laps, i, Len(parsed))
         s     == Summary(parsed, repeatCount, start, end)
     IN  /\ lapRanges' = Append(lapRanges, <<start, end>>)
         /\ IF s.ok
            THEN /\ log' = Append(log, [type |-> "lap", summary |-> s.val,
                                        last |-> IsLastLap(laps, i)])
                 /\ pc' = IF i + 1 < Len(laps) THEN "lap" ELSE "repeat"
            ELSE log' = log /\ pc' = "thrown"
  /\ UNCHANGED <<rawJson, parsed, repeatCount, totalTimeSpan, laps, repeat,
                 records, recIdx, finished>>

\* Head of the for loop: the test, and the iteration's records array.
RepeatStart ==
  /\ pc = "repeat"
  /\ IF RepeatContinues(repeat, repeatCount)
     THEN /\ records' = IF IsForward(repeat) THEN parsed ELSE Reverse(parsed)
          /\ recIdx' = 0
          /\ IF Len(parsed) = 0
             THEN repeat' = repeat + 1 /\ pc' = "repeat"
             ELSE repeat' = repeat /\ pc' = "record"
     ELSE /\ pc' = "finish"
          /\ UNCHANGED <<records, recIdx, repeat>>
  /\ UNCHANGED <<rawJson, parsed, repeatCount, totalTimeSpan, laps,
                 lapRanges, log, finished>>

\* One call of the records.forEach callback.
WriteRecord ==
  /\ pc = "record"
  /\ log' = Append(log, RecordMessage(At(records, recIdx), repeatCount,
                                      repeat, totalTimeSpan))
  /\ IF recIdx + 1 < Len(records)
     THEN recIdx' = recIdx + 1 /\ repeat' = repeat /\ pc' = "record"
     ELSE recIdx' = recIdx + 1 /\ repeat' = repeat + 1 /\ pc' = "repeat"
  /\ UNCHANGED <<rawJson, parsed, repeatCount, totalTimeSpan, laps,
                 lapRanges, records, finished>>

\* return fitWriter.finish()
Finish ==
  /\ pc = "finish"
  /\ finished' = finished + 1
  /\ pc' = "done"
  /\ UNCHANGED <<rawJson, parsed, repeatCount, totalTimeSpan, laps,
                 lapRanges, repeat, records, recIdx, log>>

Next ==
  \/ ParseJson
  \/ MakeFit
  \/ WriteFileId
  \/ WriteDeveloperDataId
  \/ WriteFieldDescription
  \/ WriteActivity
  \/ WriteSession
  \/ ComputeLaps
  \/ WriteLap
  \/ RepeatStart
  \/ WriteRecord
  \/ Finish

Spec == Init /\ [][Next]_vars

----------------------------------------------------------------------------
(* Properties *)

IsRecord(m) == m.type = "record"

\* The record messages written so far, in emission order.
Recs == SelectSeq(log, IsRecord)

N == Len(parsed)

\* Record number p (1-based) belongs to iteration (p-1) div N, where it is
\* the ((p-1) mod N)-th record.
IterOf(p) == (p - 1) \div N

PosOf(p) == (p - 1) % N

HeaderCount == 5 + Len(Laps(N))

MakeFitRunning ==
  pc \notin {"parse", "parse_failed", "call"}

\* C1: over all repeat iterations, no record carries a timestamp or a
\* distance smaller than that of the record emitted just before it.
RecordsMonotone ==
  LET recs == Recs IN
  \A p \in 1..(Len(recs) - 1) :
     /\ recs[p + 1].timestamp >= recs[p].timestamp
     /\ recs[p + 1].distance >= recs[p].distance

\* C2: each repeat iteration writes exactly sample-count records, so a
\* completed run has written repeatCount * sample-count records.
RecordCount ==
  LET recs == Recs IN
  /\ pc \in {"repeat", "finish", "done"} => Len(recs) = repeat * N
  /\ pc = "record" => Len(recs) = repeat * N + recIdx
  /\ pc \in {"finish", "done"} => Len(recs) = repeatCount * N

RecordCountWitness ==
  LET recs == Recs IN
  /\ pc = "done"
  /\ repeatCount = 3
  /\ N = 5
  /\ Len(recs) = 15

\* C3: the records of iteration k follow the samples in reversed order when
\* k is odd and in original order when k is even, and the sample sequence
\* itself stays as parseJson returned it.
DirectionAlternates ==
  LET recs == Recs IN
  /\ MakeFitRunning => parsed = ParseJsonResult(rawJson)
  /\ pc = "record" =>
       records = (IF repeat % 2 = 1 THEN Reverse(parsed) ELSE parsed)
  /\ \A p \in 1..Len(recs) :
       LET k == IterOf(p)
           q == PosOf(p)
           j == IF k % 2 = 1 THEN N - 1 - q ELSE q
       IN  recs[p] = RecordMessage(At(parsed, j), repeatCount, k,
                                   totalTimeSpan)

DirectionAlternatesWitness ==
  LET recs == Recs IN
  /\ pc = "done"
  /\ repeatCount = 3
  /\ N >= 4
  /\ recs[N + 1] = RecordMessage(At(parsed, N - 1), 3, 1, totalTimeSpan)
  /\ recs[N + 1] # RecordMessage(At(parsed, 0), 3, 1, totalTimeSpan)
  /\ recs[2 * N + 1] = RecordMessage(At(parsed, 0), 3, 2, totalTimeSpan)

\* C4: the record for sample s in iteration k has timestamp
\* time(s) + k * (time[last] - time[first]) (as the encoder represents it)
\* and distance dist(s) * repeatCount * (k + 1), each record on its own:
\* every written record is the record of some sample, and every sample has
\* its record in every completed iteration.
RecordValues ==
  LET recs == Recs
      n    == Len(parsed)
      span == At(parsed, n - 1).time - At(parsed, 0).time
      ClaimedTimestamp(j, k) == FitTime(At(parsed, j).time + k * span)
      ClaimedDistance(j, k)  == At(parsed, j).dist * repeatCount * (k + 1)
  IN
  /\ \A p \in 1..Len(recs) :
       LET k == (p - 1) \div n
       IN  \E j \in 0..(n - 1) :
              /\ recs[p].timestamp = ClaimedTimestamp(j, k)
              /\ recs[p].distance = ClaimedDistance(j, k)
  /\ \A k \in 0..(repeat - 1) :
       \A j \in 0..(n - 1) :
          \E q \in (k * n + 1)..(k * n + n) :
             /\ q <= Len(recs)
             /\ recs[q].timestamp = ClaimedTimestamp(j, k)
             /\ recs[q].distance = ClaimedDistance(j, k)

\* 8 samples, repeatCount = 2: 16 records, the first 8 with offset 0, the
\* last 8 offset by the span (7 s) and with 4 times the sample's distance.
RecordValuesWitness ==
  LET recs == Recs IN
  /\ pc = "done"
  /\ rawJson = EightTrack
  /\ repeatCount = 2
  /\ Len(recs) = 16
  /\ recs[1].timestamp = 1 /\ recs[8].timestamp = 8
  /\ recs[8].distance = 2 * 7
  /\ recs[9].timestamp = 8 + 7 /\ recs[9].distance = 4 * 7
  /\ recs[16].timestamp = 1 + 7 /\ recs[15].distance = 4 * 1

SmallCountsTolerated ==
  N >= 1 => pc # "thrown"

\* C7: for a non-empty sample sequence the session message is written, its
\* total_distance being (dist[last] - dist[first]) * repeatCount.
SessionDistance ==
  (N >= 1 /\ pc \notin {"call", "file_id", "developer_data_id",
                        "field_description", "activity", "session"}) =>
     /\ Len(log) >= 5
     /\ log[5].type = "session"
     /\ log[5].summary.total_distance =
          (At(parsed, N - 1).dist - At(parsed, 0).dist) * repeatCount

SessionDistanceWitness ==
  /\ pc = "done"
  /\ repeatCount = 1
  /\ N = 4
  /\ At(parsed, 0).dist = 1 /\ At(parsed, 3).dist = 4
  /\ log[5].summary.total_distance = 3

\* C8: a record carries the wind developer field (number 0, the sample's
\* value) exactly when its sample's wind is present in the input, a wind of
\* 0 included; a missing or null wind gives a record with no developer
\* field.
WindAttached ==
  LET recs == Recs IN
  \A p \in 1..Len(recs) :
     LET k == IterOf(p)
         q == PosOf(p)
         j == IF k % 2 = 1 THEN N - 1 - q ELSE q
         w == At(rawJson, j).wind
     IN  /\ w.tag = "number" =>
              recs[p].dev = <<[field_num |-> 0, value |-> w.val]>>
         /\ w.tag \in {"missing", "null"} => recs[p].dev = <<>>

WindAttachedWitness ==
  LET recs == Recs IN
  /\ pc = "done"
  /\ repeatCount >= 2
  /\ \E p \in 1..Len(recs) : recs[p].dev = <<[field_num |-> 0, value |-> 0]>>
  /\ \E j \in 1..N : rawJson[j].wind.tag = "null"
  /\ \E j \in 1..N : rawJson[j].wind.tag = "missing"
  /\ \E p \in (N + 1)..Len(recs) : recs[p].dev = <<>>

ExpectedType(i) ==
  IF i <= 5
  THEN <<"file_id", "developer_data_id", "field_description", "activity",
         "session">>[i]
  ELSE IF i <= HeaderCount THEN "lap" ELSE "record"

\* C9: the encoder sees file_id, developer_data_id, field_description,
\* activity, session, 4 laps (the 4th alone flagged last of its type), then
\* the records, then finish once; nothing is written after finish.
CallOrder ==
  /\ \A i \in 1..Len(log) :
       /\ log[i].type = ExpectedType(i)
       /\ log[i].last = (i <= 5 \/ i = HeaderCount)
  /\ finished = (IF pc = "done" THEN 1 ELSE 0)
  /\ pc \in {"finish", "done"} => Len(log) = HeaderCount + repeatCount * N

CallOrderWitness ==
  /\ pc = "done"
  /\ finished = 1
  /\ Len(log) = HeaderCount + 15
  /\ log[HeaderCount].type = "lap" /\ log[HeaderCount].last
  /\ log[HeaderCount + 1].type = "record"

\* C10: on an empty sample sequence makeFit throws before any message is
\* written and never finishes the encoder.
EmptyInputThrows ==
  rawJson = <<>> =>
     /\ pc \in {"parse", "call", "thrown"}
     /\ log = <<>>
     /\ finished = 0

EmptyInputThrowsWitness ==
  /\ rawJson = <<>>
  /\ pc = "thrown"
  /\ repeatCount = 2

====
